---- MODULE Spec2Model ----
(***************************************************************************)
(* cvec: a type-erased growable array whose bookkeeping record (size,      *)
(* capacity, typesize, destructor) sits in the same allocation, right      *)
(* before the element storage.  The model keeps the record fields and the  *)
(* element storage byte by byte, and the trace of the allocator calls,     *)
(* memory writes and destructor calls each library call makes.             *)
(***************************************************************************)
EXTENDS Integers, Sequences, FiniteSets, Bags, TLC

\* ---- bounds of the model ------------------------------------------------
MaxCap == 4
MaxElemSz == 2
MaxByte == 1
MaxContents == 256
MaxPushes == 3
WordBits == 6

\* ---- program constants --------------------------------------------------
\* sizeof(_internal_cvec_metadata): three uint64 and one function pointer
sizeof_metadata == 32

NULL == "null"
LIVE == "live"
FREED == "freed"

Byte == 0..MaxByte
ElemSizes == 0..MaxElemSz
Capacities == 0..MaxCap
Indices == 0..(MaxCap + 1)

\* the model follows the storages of n bytes that have at most MaxContents contents
Followed(n) == (MaxByte + 1) ^ n <= MaxContents

VARIABLES
    vec,        \* the caller's handle: NULL, LIVE (points at storage) or FREED (dangling)
    size,       \* meta__->size
    capacity,   \* meta__->capacity
    typesize,   \* meta__->typesize
    destructor, \* meta__->destructor is non-null
    data,       \* the bytes of the element storage, offset k at data[k+1]
    origin,     \* history: the capacity the buffer was reserved with
    peak,       \* history: the largest size reached since reservation
    last,       \* history: the last library call, its inputs, results and trace
    hist        \* history: the appends and destructor calls of the buffer's life so far

vars == <<vec, size, capacity, typesize, destructor, data, origin, peak, last, hist>>

\* ---- memory primitives --------------------------------------------------
Zeros(n) == [k \in 1..n |-> 0]

\* the byte at offset k - 1; OUTSIDE marks a read that leaves the storage
\* (no call of the library makes one)
OUTSIDE == 0 - 1

Load(mem, k) == IF k \in 1..Len(mem) THEN mem[k] ELSE OUTSIDE

\* the len bytes at byte offset off
Bytes(mem, off, len) == [k \in 1..len |-> Load(mem, off + k)]

\* the element at slot index i of a storage of elem_sz wide slots
ElemAt(mem, i, elem_sz) == Bytes(mem, i * elem_sz, elem_sz)

\* memset(mem + off, val, n)
Memset(mem, off, val, n) ==
    [k \in 1..Len(mem) |-> IF k > off /\ k <= off + n THEN val ELSE mem[k]]

\* memcpy(mem + off, src, Len(src))
Memcpy(mem, off, src) ==
    [k \in 1..Len(mem) |-> IF k > off /\ k <= off + Len(src) THEN src[k - off] ELSE mem[k]]

\* memmove(mem + dst, mem + src, n)
Memmove(mem, dst, src, n) ==
    [k \in 1..Len(mem) |-> IF k > dst /\ k <= dst + n THEN Load(mem, k - dst + src) ELSE mem[k]]

\* realloc to n storage bytes: the old bytes are kept, the added ones are
\* indeterminate (junk gives a value to each added byte)
Realloc(mem, n, junk) ==
    [k \in 1..n |-> IF k <= Len(mem) THEN mem[k] ELSE junk[k]]

\* ---- the trace of one call ----------------------------------------------
Ev(e, o, l, b) == [ev |-> e, off |-> o, len |-> l, bytes |-> b]

NoCall == [op |-> "none", index |-> 0, elem |-> <<>>, retval |-> 0, rethandle |-> NULL,
           arg_capacity |-> 0, arg_elem_sz |-> 0, arg_destructor |-> FALSE,
           pre_vec |-> NULL, pre_size |-> 0, pre_capacity |-> 0, pre_typesize |-> 0,
           pre_destructor |-> FALSE, pre_data |-> <<>>, events |-> <<>>]

\* the record of a call made in the current state
Call(name) == [NoCall EXCEPT !.op = name, !.pre_vec = vec, !.pre_size = size,
                             !.pre_capacity = capacity, !.pre_typesize = typesize,
                             !.pre_destructor = destructor, !.pre_data = data]

\* ---- accessors ----------------------------------------------------------
cvec_get_capacity(v) == IF v # NULL THEN capacity ELSE 0

cvec_get_sz(v) == IF v # NULL THEN size ELSE 0

cvec_get_type_sz(v) == IF v # NULL THEN typesize ELSE 0

cvec_empty(v) == IF cvec_get_sz(v) = 0 THEN 1 ELSE 0

GetCapacity ==
    /\ vec # FREED
    /\ last' = [Call("get_capacity") EXCEPT !.retval = cvec_get_capacity(vec)]
    /\ UNCHANGED <<vec, size, capacity, typesize, destructor, data, origin, peak>>

GetSz ==
    /\ vec # FREED
    /\ last' = [Call("get_sz") EXCEPT !.retval = cvec_get_sz(vec)]
    /\ UNCHANGED <<vec, size, capacity, typesize, destructor, data, origin, peak>>

GetTypeSz ==
    /\ vec # FREED
    /\ last' = [Call("get_type_sz") EXCEPT !.retval = cvec_get_type_sz(vec)]
    /\ UNCHANGED <<vec, size, capacity, typesize, destructor, data, origin, peak>>

Empty ==
    /\ vec # FREED
    /\ last' = [Call("empty") EXCEPT !.retval = cvec_empty(vec)]
    /\ UNCHANGED <<vec, size, capacity, typesize, destructor, data, origin, peak>>

\* ---- creation -----------------------------------------------------------
\* new_allocated_size__
AllocatedSize(cap, elem_sz) == sizeof_metadata + cap * elem_sz

\* cvec_reserve(cap, elem_sz, dtor); the caller stores the result in its handle
Reserve(name, cap, elem_sz, dtor) ==
    /\ vec # LIVE
    /\ Followed(cap * elem_sz)
    /\ vec' = LIVE
    /\ size' = 0
    /\ capacity' = cap
    /\ typesize' = elem_sz
    /\ destructor' = dtor
    /\ data' = Zeros(cap * elem_sz)
    /\ origin' = cap
    /\ peak' = 0
    /\ last' = [Call(name) EXCEPT
                  !.arg_capacity = cap,
                  !.arg_elem_sz = elem_sz,
                  !.arg_destructor = dtor,
                  !.rethandle = LIVE,
                  !.events = << Ev("malloc", 0, AllocatedSize(cap, elem_sz), <<>>),
                                Ev("memset", 0 - sizeof_metadata,
                                   AllocatedSize(cap, elem_sz), <<>>) >>]

cvec_reserve(cap, elem_sz, dtor) == Reserve("reserve", cap, elem_sz, dtor)

\* faulty variant: create reserves no slot
cvec_create_empty(elem_sz, dtor) == Reserve("create", 0, elem_sz, dtor)

cvec_create(elem_sz, dtor) == Reserve("create", 1, elem_sz, dtor)

\* ---- append -------------------------------------------------------------
\* faulty variant: the block is halved instead of doubled
NewCapacityHalved(cap) == cap \div 2

\* faulty variant: the block grows by one slot instead of doubling
NewCapacityLinear(cap) == cap + 1

\* new_capacity
NewCapacity(cap) == IF cap = 0 THEN 1 ELSE cap * 2

\* faulty variant: the wrong comparison, a full block is not grown
IsFullLate(cap, sz) == cap < sz

\* the test that decides whether push_back grows the block
IsFull(cap, sz) == cap = sz

\* the byte offset the growth memset starts at: (uint8*)vec + capacity
GrowMemsetOffset(cap, elem_sz) == cap

\* the byte count of the growth memset
GrowMemsetLen(cap, new_capacity, elem_sz) == (new_capacity - cap) * elem_sz

\* faulty variant: the slot index is not scaled by the element size
PushOffsetUnscaled(sz, elem_sz) == sz

\* the byte offset the element is copied to: (uint8*)vec + (sz * elem_sz)
PushOffset(sz, elem_sz) == sz * elem_sz

\* faulty variant: the grown block gets a fresh record, the old one is not carried over
ReallocRecordFresh(rec) == [typesize |-> 0, destructor |-> FALSE]

\* realloc keeps the bookkeeping record at the head of the block
ReallocRecord(rec) == rec

\* the storage after the growth step: realloc, then the zero fill
Grow(mem, cap, elem_sz, junk) ==
    Memset(Realloc(mem, NewCapacity(cap) * elem_sz, junk),
           GrowMemsetOffset(cap, elem_sz), 0,
           GrowMemsetLen(cap, NewCapacity(cap), elem_sz))

GrowEvents(cap, elem_sz) ==
    << Ev("realloc", 0, AllocatedSize(NewCapacity(cap), elem_sz), <<>>),
       Ev("memset", GrowMemsetOffset(cap, elem_sz),
          GrowMemsetLen(cap, NewCapacity(cap), elem_sz), <<>>) >>

\* the model follows a buffer up to MaxCap slots and, where it keeps the
\* history of a buffer's life, up to MaxPushes appends
WithinBounds ==
    /\ vec = LIVE /\ IsFull(capacity, size) =>
          NewCapacity(capacity) <= MaxCap /\ Followed(NewCapacity(capacity) * typesize)
    /\ vec = LIVE /\ hist.on => hist.pushes < MaxPushes

\* the values realloc may leave in the bytes it adds
JunkInputs ==
    IF vec = LIVE /\ IsFull(capacity, size)
    THEN [(Len(data) + 1)..(NewCapacity(capacity) * typesize) -> Byte]
    ELSE {<<>>}

\* the elements a caller may pass: typesize bytes (any width on a null handle)
ElemInputs ==
    IF vec = LIVE THEN [1..typesize -> Byte]
    ELSE UNION {[1..e -> Byte] : e \in ElemSizes}

\* vec = cvec_push_back(vec, elem)
cvec_push_back(elem, junk) ==
    /\ vec # FREED
    /\ IF vec = NULL
       THEN /\ last' = [Call("push_back") EXCEPT !.elem = elem, !.rethandle = NULL]
            /\ UNCHANGED <<vec, size, capacity, typesize, destructor, data, origin, peak>>
       ELSE LET sz == size
                cap == capacity
                elem_sz == typesize
                grows == IsFull(cap, sz)
                mem == IF grows THEN Grow(data, cap, elem_sz, junk) ELSE data
                rec == [typesize |-> typesize, destructor |-> destructor]
                meta == IF grows THEN ReallocRecord(rec) ELSE rec
            IN  /\ capacity' = (IF grows THEN NewCapacity(cap) ELSE cap)
                /\ data' = Memcpy(mem, PushOffset(sz, elem_sz), elem)
                /\ size' = sz + 1
                /\ peak' = (IF sz + 1 > peak THEN sz + 1 ELSE peak)
                /\ last' = [Call("push_back") EXCEPT
                              !.elem = elem,
                              !.rethandle = LIVE,
                              !.events = (IF grows THEN GrowEvents(cap, elem_sz) ELSE <<>>)
                                         \o << Ev("memcpy", PushOffset(sz, elem_sz),
                                                  elem_sz, elem) >>]
                /\ typesize' = meta.typesize
                /\ destructor' = meta.destructor
                /\ UNCHANGED <<vec, origin>>

\* ---- erase --------------------------------------------------------------
\* faulty variant: the index one past the last element passes the test
OutOfBoundsStrict(index, sz) == index > sz

\* the bounds test of cvec_erase: if (index >= sz) return
OutOfBounds(index, sz) == index >= sz

\* the element handed to the destructor: data + index * elem_sz
EraseDestructorOffset(index, elem_sz) == index * elem_sz

\* faulty variant: the shift moves one element too few
EraseShiftShort(mem, index, sz, elem_sz) ==
    Memmove(mem, index * elem_sz, (index + 1) * elem_sz, (sz - (index + 2)) * elem_sz)

\* the shift: memmove(data + index*elem_sz, data + (index+1)*elem_sz, (sz-(index+1))*elem_sz)
EraseShift(mem, index, sz, elem_sz) ==
    Memmove(mem, index * elem_sz, (index + 1) * elem_sz, (sz - (index + 1)) * elem_sz)

\* faulty variant: the destructor runs after the shift, on the overwritten slot
EraseEventsAfterShift(mem, index, sz, elem_sz, dtor) ==
    << Ev("memmove", index * elem_sz, (sz - (index + 1)) * elem_sz, <<>>) >>
    \o (IF dtor
        THEN << Ev("destructor", index * elem_sz, elem_sz,
                   Bytes(Memmove(mem, index * elem_sz, (index + 1) * elem_sz,
                                 (sz - (index + 1)) * elem_sz),
                         index * elem_sz, elem_sz)) >>
        ELSE <<>>)

EraseEvents(mem, index, sz, elem_sz, dtor) ==
    (IF dtor
     THEN << Ev("destructor", EraseDestructorOffset(index, elem_sz), elem_sz,
                Bytes(mem, EraseDestructorOffset(index, elem_sz), elem_sz)) >>
     ELSE <<>>)
    \o << Ev("memmove", index * elem_sz, (sz - (index + 1)) * elem_sz, <<>>) >>

\* cvec_erase(vec, index)
cvec_erase(index) ==
    /\ vec # FREED
    /\ IF vec = NULL \/ OutOfBounds(index, size)
       THEN /\ last' = [Call("erase") EXCEPT !.index = index]
            /\ UNCHANGED <<vec, size, capacity, typesize, destructor, data, origin, peak>>
       ELSE /\ data' = EraseShift(data, index, size, typesize)
            /\ size' = size - 1
            /\ last' = [Call("erase") EXCEPT
                          !.index = index,
                          !.events = EraseEvents(data, index, size, typesize, destructor)]
            /\ UNCHANGED <<vec, capacity, typesize, destructor, origin, peak>>

\* ---- teardown -----------------------------------------------------------
\* faulty variant: the loop starts at index 1
FreeDestructorCallsFromOne(mem, sz, elem_sz) ==
    [i \in 1..(sz - 1) |-> Ev("destructor", i * elem_sz, elem_sz,
                              Bytes(mem, i * elem_sz, elem_sz))]

\* the destructor loop: for (i = 0; i < sz; i++) destructor(data + i*elem_sz)
FreeDestructorCalls(mem, sz, elem_sz) ==
    [i \in 1..sz |-> Ev("destructor", (i - 1) * elem_sz, elem_sz,
                        Bytes(mem, (i - 1) * elem_sz, elem_sz))]

FreeEvents(mem, sz, elem_sz, dtor) ==
    (IF dtor THEN FreeDestructorCalls(mem, sz, elem_sz) ELSE <<>>)
    \o << Ev("free", 0 - sizeof_metadata, 0, <<>>) >>

\* faulty variant: no test for the null handle
cvec_free_unchecked ==
    /\ vec # FREED
    /\ vec' = FREED
    /\ size' = 0
    /\ capacity' = 0
    /\ typesize' = 0
    /\ destructor' = FALSE
    /\ data' = <<>>
    /\ origin' = 0
    /\ peak' = 0
    /\ last' = [Call("free") EXCEPT
                  !.events = FreeEvents(data, size, typesize, destructor)]

\* cvec_free(vec); the handle dangles afterwards and is not used again
cvec_free ==
    /\ vec # FREED
    /\ IF vec = NULL
       THEN /\ last' = Call("free")
            /\ UNCHANGED <<vec, size, capacity, typesize, destructor, data, origin, peak>>
       ELSE /\ vec' = FREED
            /\ size' = 0
            /\ capacity' = 0
            /\ typesize' = 0
            /\ destructor' = FALSE
            /\ data' = <<>>
            /\ origin' = 0
            /\ peak' = 0
            /\ last' = [Call("free") EXCEPT
                          !.events = FreeEvents(data, size, typesize, destructor)]

\* ---- the history of a buffer's life ----------------------------------------
\* nothing recorded; on says whether the history is kept at all
NoHist(keep) == [on |-> keep, pushes |-> 0, pushed |-> EmptyBag, cleaned |-> EmptyBag,
                 list |-> <<>>]

RECURSIVE DestructorArgs(_)
\* the bag of the elements the destructor was called on in a trace
DestructorArgs(evs) ==
    IF evs = <<>> THEN EmptyBag
    ELSE (IF Head(evs).ev = "destructor" THEN SetToBag({Head(evs).bytes}) ELSE EmptyBag)
         (+) DestructorArgs(Tail(evs))

\* the list without its element at index i (from 0); the list itself if it has none
RemoveAt(list, i) ==
    IF i < Len(list) THEN SubSeq(list, 1, i) \o SubSeq(list, i + 2, Len(list)) ELSE list

\* the history after the call c: the elements appended, the elements handed to
\* the destructor, and the list the append and erase calls describe
HistAfter(h, c) ==
    IF ~h.on THEN h
    ELSE IF c.op \in {"create", "reserve"} THEN NoHist(TRUE)
    ELSE IF c.pre_vec # LIVE THEN h
    ELSE IF c.op = "push_back"
         THEN [h EXCEPT !.pushes = @ + 1,
                        !.pushed = @ (+) SetToBag({c.elem}),
                        !.list = Append(@, c.elem)]
    ELSE IF c.op = "erase"
         THEN [h EXCEPT !.cleaned = @ (+) DestructorArgs(c.events),
                        !.list = RemoveAt(@, c.index)]
    ELSE IF c.op = "free"
         THEN [h EXCEPT !.cleaned = @ (+) DestructorArgs(c.events)]
    ELSE h

Recorded == hist' = HistAfter(hist, last')

\* ---- the caller ---------------------------------------------------------
NoBufferYet ==
    /\ vec = NULL
    /\ size = 0
    /\ capacity = 0
    /\ typesize = 0
    /\ destructor = FALSE
    /\ data = <<>>
    /\ origin = 0
    /\ peak = 0
    /\ last = NoCall

Init == NoBufferYet /\ hist = NoHist(FALSE)

\* the same caller, with the history of each buffer's life kept
LifeInit == NoBufferYet /\ hist = NoHist(TRUE)

DoReserve == \E cap \in Capacities, elem_sz \in ElemSizes, dtor \in BOOLEAN :
                cvec_reserve(cap, elem_sz, dtor)

DoCreate == \E elem_sz \in ElemSizes, dtor \in BOOLEAN : cvec_create(elem_sz, dtor)

DoPushBack ==
    /\ WithinBounds
    /\ \E elem \in ElemInputs, junk \in JunkInputs : cvec_push_back(elem, junk)

DoErase == \E index \in Indices : cvec_erase(index)

Next ==
    \/ DoReserve /\ Recorded
    \/ DoCreate /\ Recorded
    \/ DoPushBack /\ Recorded
    \/ DoErase /\ Recorded
    \/ cvec_free /\ Recorded
    \/ GetCapacity /\ Recorded
    \/ GetSz /\ Recorded
    \/ GetTypeSz /\ Recorded
    \/ Empty /\ Recorded

Spec == Init /\ [][Next]_vars

LifeSpec == LifeInit /\ [][Next]_vars

\* ---- the size arithmetic in machine words ----------------------------------
\* size_t and uint64 are 64 bits wide in the program; the model computes the
\* same expressions modulo 2^WordBits and follows the sizes of the block only:
\* data stands for the storage the allocator really handed out (its contents
\* are not followed), capacity and size for the record, through one buffer's life.
Word == 2 ^ WordBits

Words == 0..(Word - 1)

\* new_allocated_size__ = sizeof(metadata) + capacity * elem_sz, in words
AllocatedSizeWord(cap, elem_sz) == (sizeof_metadata + ((cap * elem_sz) % Word)) % Word

\* new_capacity = (capacity == 0) ? 1 : capacity*2, in words
NewCapacityWord(cap) == IF cap = 0 THEN 1 ELSE (cap * 2) % Word

\* the growth memset and the element copy, their byte counts and offsets in words
GrowMemsetLenWord(cap, new_capacity, elem_sz) ==
    (((new_capacity - cap) % Word) * elem_sz) % Word

PushOffsetWord(sz, elem_sz) == (sz * elem_sz) % Word

\* the storage behind the record in a block of n bytes
StorageOf(n) == IF n > sizeof_metadata THEN Zeros(n - sizeof_metadata) ELSE <<>>

\* cvec_reserve(cap, elem_sz, ..) with word-sized arguments
WordReserve(cap, elem_sz) ==
    /\ vec = NULL
    /\ vec' = LIVE
    /\ size' = 0
    /\ capacity' = cap
    /\ typesize' = elem_sz
    /\ data' = StorageOf(AllocatedSizeWord(cap, elem_sz))
    /\ last' = [Call("reserve") EXCEPT
                  !.arg_capacity = cap,
                  !.arg_elem_sz = elem_sz,
                  !.rethandle = LIVE,
                  !.events = << Ev("malloc", 0, AllocatedSizeWord(cap, elem_sz), <<>>) >>]
    /\ UNCHANGED <<destructor, origin, peak, hist>>

\* cvec_push_back on a live buffer: the growth decision, the new capacity, the
\* size of the reallocated block and the increment of size
WordPushBack ==
    /\ vec = LIVE
    /\ size + 1 < Word
    /\ LET grows == IsFull(capacity, size)
           new_capacity == NewCapacityWord(capacity)
       IN  /\ capacity' = (IF grows THEN new_capacity ELSE capacity)
           /\ data' = (IF grows THEN StorageOf(AllocatedSizeWord(new_capacity, typesize))
                       ELSE data)
           /\ size' = size + 1
           /\ last' = [Call("push_back") EXCEPT
                         !.rethandle = LIVE,
                         !.events = (IF grows
                                     THEN << Ev("realloc", 0,
                                                AllocatedSizeWord(new_capacity, typesize),
                                                <<>>),
                                             Ev("memset", GrowMemsetOffset(capacity, typesize),
                                                GrowMemsetLenWord(capacity, new_capacity,
                                                                  typesize), <<>>) >>
                                     ELSE <<>>)
                                    \o << Ev("memcpy", PushOffsetWord(size, typesize),
                                             typesize, <<>>) >>]
    /\ UNCHANGED <<vec, typesize, destructor, origin, peak, hist>>

WordNext ==
    \/ \E cap \in Words, elem_sz \in Words : WordReserve(cap, elem_sz)
    \/ WordPushBack

WordSpec == Init /\ [][WordNext]_vars

\* ======================= the properties ==================================
\* the last call was name, made on a live buffer
Did(name) == last.op = name /\ last.pre_vec = LIVE

PushedLive == Did("push_back")

PushedGrowing == PushedLive /\ last.pre_size = last.pre_capacity

ErasedInRange == Did("erase") /\ last.index < last.pre_size

ErasedOutOfRange == Did("erase") /\ last.index >= last.pre_size

\* the events of kind name, in order
EventsOf(name) == SelectSeq(last.events, LAMBDA e : e.ev = name)

\* C1: in every state reached from create or reserve by push_back and erase
\* calls (in range or not), capacity >= size.
C1_CapacityAtLeastSize == vec = LIVE => capacity >= size

\* a growing append has just filled a block of at least two slots to the brim
C1_Witness ==
    /\ vec = LIVE
    /\ PushedLive
    /\ size = capacity
    /\ capacity >= 2
    /\ origin = 0

\* C2: push_back on a non-null handle leaves every previously live element
\* (indices 0 .. old size - 1) byte for byte unchanged, also when it grows
\* the block.
C2_PushKeepsLiveElements ==
    PushedLive =>
        \A k \in 1..(last.pre_size * last.pre_typesize) : data[k] = last.pre_data[k]

\* C3: after push_back on a non-null handle the element at index size - 1
\* equals the pushed element byte for byte and size grew by exactly one,
\* with or without growth.
C3_PushRoundTrip ==
    PushedLive =>
        /\ size = last.pre_size + 1
        /\ last.rethandle = LIVE
        /\ vec = LIVE
        /\ ElemAt(data, size - 1, typesize) = last.elem

\* a growing append of a two byte element behind a live one
C3_Witness ==
    /\ PushedGrowing
    /\ last.pre_size >= 1
    /\ typesize = 2
    /\ last.elem = <<1, 1>>

\* C4: erase with index < size removes exactly that element: size is one
\* less, the elements before the index are unchanged and each element j
\* after it is now at j - 1 with the same bytes.
C4_EraseCompacts ==
    ErasedInRange =>
        /\ size = last.pre_size - 1
        /\ \A j \in 0..(last.index - 1) :
              ElemAt(data, j, typesize) = ElemAt(last.pre_data, j, typesize)
        /\ \A j \in (last.index + 1)..(last.pre_size - 1) :
              ElemAt(data, j - 1, typesize) = ElemAt(last.pre_data, j, typesize)

\* [e0, e1, e2, e3] with erase(1) has given [e0, e2, e3]
C4_Witness ==
    /\ ErasedInRange
    /\ last.pre_size = 4
    /\ last.index = 1
    /\ typesize = 1
    /\ last.pre_data = <<1, 0, 1, 0>>
    /\ SubSeq(data, 1, 3) = <<1, 1, 0>>

\* C5: an in-range erase on a buffer with a destructor calls it exactly once,
\* on the bytes of the element at the index as they were before the shift,
\* and before the shift; without a destructor nothing is called.
C5_EraseDestructsOnce ==
    ErasedInRange =>
        IF last.pre_destructor
        THEN /\ Len(EventsOf("destructor")) = 1
             /\ Len(last.events) = 2
             /\ last.events[1].ev = "destructor"
             /\ last.events[1].off = last.index * last.pre_typesize
             /\ last.events[1].bytes = ElemAt(last.pre_data, last.index, last.pre_typesize)
             /\ last.events[2].ev = "memmove"
        ELSE EventsOf("destructor") = <<>>

\* the destructor got an element that the shift then overwrote with another
C5_Witness ==
    /\ ErasedInRange
    /\ last.pre_destructor
    /\ last.index + 1 < last.pre_size
    /\ typesize >= 1
    /\ ElemAt(data, last.index, typesize) # last.events[1].bytes

\* C6: free of a buffer with N live elements and a destructor calls it N
\* times, on the indices 0 .. N-1 in ascending order, every call before the
\* release, and releases the allocation exactly once.
C6_FreeDestructsAll ==
    Did("free") =>
        LET n == last.pre_size
            esz == last.pre_typesize
            calls == IF last.pre_destructor THEN n ELSE 0
        IN  /\ vec = FREED
            /\ Len(last.events) = calls + 1
            /\ \A i \in 1..calls :
                  /\ last.events[i].ev = "destructor"
                  /\ last.events[i].off = (i - 1) * esz
                  /\ last.events[i].bytes = ElemAt(last.pre_data, i - 1, esz)
            /\ last.events[calls + 1].ev = "free"
            /\ Len(EventsOf("free")) = 1

\* three live elements were destroyed by free
C6_Witness ==
    /\ Did("free")
    /\ last.pre_destructor
    /\ last.pre_size = 3
    /\ last.pre_typesize >= 1
    /\ Len(EventsOf("destructor")) = 3

\* C7: in every reachable state every slot with index in [size, capacity)
\* holds only zero bytes.
C7_SpareSlotsZero ==
    vec = LIVE => \A k \in (size * typesize + 1)..(capacity * typesize) : data[k] = 0

IsPow2(p) == \E k \in 0..p : 2 ^ k = p

\* the least power of two that is at least n (0 for 0)
Pow2Ceil(n) == IF n = 0 THEN 0 ELSE CHOOSE p \in n..(2 * n) : IsPow2(p) /\ p < 2 * n

\* C8: a push_back changes the capacity exactly when it finds the block full
\* (size = capacity), and then to 1 from 0 and to twice the capacity
\* otherwise; so a buffer reserved with capacity 0 goes through the
\* capacities 1, 2, 4, 8, ...: its capacity is the least power of two that
\* holds the largest size it has reached.
C8_GrowthLaw ==
    /\ PushedLive =>
          capacity = (IF last.pre_size = last.pre_capacity
                      THEN (IF last.pre_capacity = 0 THEN 1 ELSE 2 * last.pre_capacity)
                      ELSE last.pre_capacity)
    /\ vec = LIVE /\ origin = 0 => capacity = Pow2Ceil(peak)

\* the third append to a buffer reserved with capacity 0 took it from 2 to 4
C8_Witness ==
    /\ PushedGrowing
    /\ origin = 0
    /\ last.pre_capacity = 2
    /\ capacity = 4
    /\ size = 3

\* C9: erase with index >= size is a no-op: size, capacity, element size and
\* every element byte are unchanged and the destructor is not called.
C9_EraseOutOfRangeNoOp ==
    ErasedOutOfRange =>
        /\ vec = LIVE
        /\ size = last.pre_size
        /\ capacity = last.pre_capacity
        /\ typesize = last.pre_typesize
        /\ destructor = last.pre_destructor
        /\ data = last.pre_data
        /\ last.events = <<>>

\* erase(h, size(h)) on a non-empty buffer that has a destructor
C9_Witness ==
    /\ ErasedOutOfRange
    /\ last.index = last.pre_size
    /\ last.pre_size >= 1
    /\ last.pre_destructor
    /\ \E k \in 1..Len(data) : data[k] # 0

\* the state holds no buffer
NoBuffer ==
    /\ vec = NULL
    /\ size = 0
    /\ capacity = 0
    /\ typesize = 0
    /\ data = <<>>

\* C10: on a null handle size, capacity and element size return 0, is_empty
\* returns true, push_back returns null without allocating, and erase and
\* free change no state and call no destructor.
C10_NullSafety ==
    last.pre_vec = NULL =>
        /\ last.op \in {"get_sz", "get_capacity", "get_type_sz"} => last.retval = 0
        /\ last.op = "empty" => last.retval = 1
        /\ last.op = "push_back" =>
              last.rethandle = NULL /\ last.events = <<>> /\ NoBuffer
        /\ last.op \in {"erase", "free"} => last.events = <<>> /\ NoBuffer

\* free was called on the null handle
C10_Witness ==
    /\ last.pre_vec = NULL
    /\ last.op = "free"
    /\ vec = NULL

\* C11: across push_back and erase calls on one buffer the capacity never
\* decreases: no push_back lowers it and erase, in range or not, leaves it
\* exactly unchanged.
C11_CapacityMonotone ==
    /\ PushedLive => capacity >= last.pre_capacity
    /\ Did("erase") => capacity = last.pre_capacity

\* an in-range erase on a buffer that has grown from 0 to 4 slots
C11_Witness ==
    /\ ErasedInRange
    /\ origin = 0
    /\ capacity = 4
    /\ size = 2

\* the last call was create or reserve
Made == last.op \in {"create", "reserve"}

\* C12: a fresh buffer has size 0, is empty, has capacity 1 from create and
\* capacity c from reserve(c, ..) (0 included), the element size given, and
\* all its slots zero.
C12_FreshBuffer ==
    Made =>
        /\ vec = LIVE
        /\ cvec_get_sz(vec) = 0
        /\ cvec_empty(vec) = 1
        /\ last.op = "create" => cvec_get_capacity(vec) = 1
        /\ last.op = "reserve" => cvec_get_capacity(vec) = last.arg_capacity
        /\ cvec_get_type_sz(vec) = last.arg_elem_sz
        /\ destructor = last.arg_destructor
        /\ Len(data) = capacity * typesize
        /\ \A k \in 1..Len(data) : data[k] = 0

\* create of a buffer of two byte elements
C12_Witness ==
    /\ last.op = "create"
    /\ last.arg_elem_sz = 2
    /\ capacity = 1
    /\ data = <<0, 0>>

\* C13: the element size and the destructor recorded at creation are not
\* changed by push_back (growing or not) nor by erase, and the element size
\* accessor returns the recorded value.
C13_RecordKept ==
    /\ Did("push_back") \/ Did("erase") =>
          /\ typesize = last.pre_typesize
          /\ destructor = last.pre_destructor
    /\ Did("get_type_sz") => last.retval = typesize /\ typesize = last.pre_typesize

\* a growing push_back on a buffer of two byte elements with a destructor
C13_Witness ==
    /\ PushedGrowing
    /\ last.pre_capacity >= 1
    /\ typesize = 2
    /\ destructor

\* C14: when push_back grows a full buffer from capacity c to c', every byte
\* of every slot with index in [c + 1, c') is zero after the call, for every
\* element size.
C14_GrowthZeroFills ==
    PushedGrowing =>
        \A k \in ((last.pre_capacity + 1) * typesize + 1)..(capacity * typesize) :
            data[k] = 0

\* the events of the last call that write to the storage
IsWrite(e) == e.ev \in {"memset", "memcpy", "memmove"} /\ e.len > 0

\* C17: every byte written by push_back (the growth zero fill and the element
\* copy) and by erase (the shift) lies at a byte offset in
\* [0, capacity * element size) of the storage as sized at that moment, for
\* every capacity and element size: no write touches the record or memory past
\* the allocation.
C17_WritesInside ==
    Did("push_back") \/ Did("erase") =>
        \A i \in 1..Len(last.events) :
            IsWrite(last.events[i]) =>
                /\ last.events[i].off >= 0
                /\ last.events[i].off + last.events[i].len <= capacity * typesize
                /\ last.events[i].off + last.events[i].len <= Len(data)

\* C15: for a buffer with a destructor, after any push_back and erase calls
\* followed by free, the destructor has been called exactly once for every
\* element ever appended, each time on the bytes that were appended.
C15_EveryElementDestroyedOnce ==
    hist.on /\ Did("free") /\ last.pre_destructor => hist.cleaned = hist.pushed

\* C16: after any push_back and erase calls the live elements at indices
\* [0, size) equal, in order and byte for byte, the list obtained by replaying
\* the calls as append and remove-at-index (out-of-range remove ignored) on an
\* empty list, and size is that list's length.
C16_RefinesList ==
    hist.on /\ vec = LIVE =>
        /\ size = Len(hist.list)
        /\ \A j \in 0..(size - 1) : ElemAt(data, j, typesize) = hist.list[j + 1]

\* the allocator calls of the last call
Requests == SelectSeq(last.events, LAMBDA e : e.ev \in {"malloc", "realloc"})

\* C18: the byte count reserve and a growing push_back ask the allocator for
\* is record size + capacity * element size, without wrap-around (nor does
\* the doubled capacity wrap), so the recorded capacity never exceeds the
\* number of slots the allocation holds.
C18_NoWrapAround ==
    vec = LIVE =>
        /\ \A i \in 1..Len(Requests) :
              Requests[i].len = sizeof_metadata + capacity * typesize
        /\ Did("push_back") /\ last.pre_size = last.pre_capacity /\ last.pre_capacity > 0 =>
              capacity = 2 * last.pre_capacity
        /\ capacity * typesize <= Len(data)

====
